---- MODULE Spec2Model ----
(***************************************************************************)
(* dense-slotmap-mem: a fixed-capacity, generation-tracked dense slot map  *)
(* living in one caller-supplied byte region (src/src/lib.rs).             *)
(*                                                                         *)
(* The region is modelled field by field: the 8-byte header (capacity,     *)
(* len, element_size), the dense value bytes, the trailer header (magic,   *)
(* element-size echo, free_top, pad) and the four u16[capacity] arrays.    *)
(* Every public function of lib.rs is an operator from the region (and its *)
(* arguments) to the region it leaves and the value it returns; the        *)
(* actions apply these operators to the one region of the model.           *)
(***************************************************************************)
EXTENDS Integers, Sequences, FiniteSets, TLC

(***************************************************************************)
(* Bounds of the model.                                                    *)
(***************************************************************************)
\* init is called with a capacity in 1..MaxCapacity.
MaxCapacity == 3
\* Spec runs make at most this many successful removes, and the history
\* keeps the first this many retired handles.
MaxRetired == 2

\* init is called with capacity * element_size, the size of the dense value
\* area, at most this many bytes.
MaxValuesSize == 4

\* How many later calls the claims about "every later state" of a region
\* follow from each reachable state.
MaxLater == 2

\* The byte values callers write.
Bytes == {0, 1}

(***************************************************************************)
(* Constants of lib.rs.                                                    *)
(***************************************************************************)
SVEC_TRAILER_MAGIC == 1398162755
INVALID_U16 == 65535
HEADER_SIZE == 8
VALUES_OFFSET == HEADER_SIZE
TRAILER_HEADER_SIZE == 12
\* The bound debug_validate_slotmap puts on element_size: 1024 * 1024.
MAX_ELEMENT_SIZE == 1024 * 1024
\* u16 arithmetic is modulo 2^16.
U16 == INVALID_U16 + 1

\* Option<T>: None, or Some(x).
None == <<>>
Some(x) == <<x>>

Range(n) == 0 .. (n - 1)

\* What a call leaves: the region, the value returned, and whether the call
\* ended in a failed debug assertion (ret then carries no meaning).
Return(base, ret) == [base |-> base, ret |-> ret, panic |-> FALSE]
Abort(base, ret) == [base |-> base, ret |-> ret, panic |-> TRUE]

(***************************************************************************)
(* debug_validate_slotmap: the debug build's self-check, run first by      *)
(* every public function but init.  TRUE when every assertion passes.      *)
(***************************************************************************)
\* A self-check without the trailer magic assertion.
debug_validate_slotmap_without_magic(base) ==
    /\ base.capacity # 0
    /\ base.len <= base.capacity
    /\ base.element_size # 0
    /\ base.element_size <= MAX_ELEMENT_SIZE
    /\ base.trailer_elem_size = base.element_size
    /\ base.free_top <= base.capacity
    /\ base.len + base.free_top = base.capacity

debug_validate_slotmap(base) ==
    /\ base.capacity # 0
    /\ base.len <= base.capacity
    /\ base.element_size # 0
    /\ base.element_size <= MAX_ELEMENT_SIZE
    /\ base.magic = SVEC_TRAILER_MAGIC
    /\ base.trailer_elem_size = base.element_size
    /\ base.free_top <= base.capacity
    /\ base.len + base.free_top = base.capacity

(***************************************************************************)
(* init: the region as init(base, capacity, element_size) writes it.  The  *)
(* dense value bytes are not written by init: they are what the buffer     *)
(* held.                                                                   *)
(***************************************************************************)
\* An init that fills free_stack in descending order.
init_descending_free_stack(capacity, element_size, buffer) ==
    [ capacity          |-> capacity,
      len               |-> 0,
      element_size      |-> element_size,
      values            |-> buffer,
      magic             |-> SVEC_TRAILER_MAGIC,
      trailer_elem_size |-> element_size,
      free_top          |-> capacity,
      pad               |-> 0,
      id_to_index       |-> [i \in Range(capacity) |-> INVALID_U16],
      index_to_id       |-> [i \in Range(capacity) |-> INVALID_U16],
      generation        |-> [i \in Range(capacity) |-> 1],
      free_stack        |-> [i \in Range(capacity) |-> capacity - 1 - i] ]

init(capacity, element_size, buffer) ==
    [ capacity          |-> capacity,
      len               |-> 0,
      element_size      |-> element_size,
      values            |-> buffer,
      magic             |-> SVEC_TRAILER_MAGIC,
      trailer_elem_size |-> element_size,
      free_top          |-> capacity,
      pad               |-> 0,
      id_to_index       |-> [i \in Range(capacity) |-> INVALID_U16],
      index_to_id       |-> [i \in Range(capacity) |-> INVALID_U16],
      generation        |-> [i \in Range(capacity) |-> 1],
      free_stack        |-> [i \in Range(capacity) |-> i] ]

(***************************************************************************)
(* clear: reset len, free_top, both maps and the free stack; generations   *)
(* and value bytes are not written.                                        *)
(***************************************************************************)
\* A clear that forgets to reset free_top.
clear_keeps_free_top(base) ==
    IF ~debug_validate_slotmap(base) THEN Abort(base, None)
    ELSE LET capacity == base.capacity
         IN Return([base EXCEPT
                  !.len = 0,
                  !.id_to_index = [i \in Range(capacity) |-> INVALID_U16],
                  !.index_to_id = [i \in Range(capacity) |-> INVALID_U16],
                  !.free_stack = [i \in Range(capacity) |-> i]], None)

\* A clear that, like init, also resets the generations to 1.
clear_resets_generation(base) ==
    IF ~debug_validate_slotmap(base) THEN Abort(base, None)
    ELSE LET capacity == base.capacity
         IN Return([base EXCEPT
                  !.len = 0,
                  !.free_top = capacity,
                  !.id_to_index = [i \in Range(capacity) |-> INVALID_U16],
                  !.index_to_id = [i \in Range(capacity) |-> INVALID_U16],
                  !.generation = [i \in Range(capacity) |-> 1],
                  !.free_stack = [i \in Range(capacity) |-> i]], None)

\* A clear that does not refill free_stack.
clear_keeps_free_stack(base) ==
    IF ~debug_validate_slotmap(base) THEN Abort(base, None)
    ELSE LET capacity == base.capacity
         IN Return([base EXCEPT
                  !.len = 0,
                  !.free_top = capacity,
                  !.id_to_index = [i \in Range(capacity) |-> INVALID_U16],
                  !.index_to_id = [i \in Range(capacity) |-> INVALID_U16]], None)

clear(base) ==
    IF ~debug_validate_slotmap(base) THEN Abort(base, None)
    ELSE LET capacity == base.capacity
         IN Return([base EXCEPT
                  !.len = 0,
                  !.free_top = capacity,
                  !.id_to_index = [i \in Range(capacity) |-> INVALID_U16],
                  !.index_to_id = [i \in Range(capacity) |-> INVALID_U16],
                  !.free_stack = [i \in Range(capacity) |-> i]], None)

(***************************************************************************)
(* allocate: pop an id from free_stack, append it to the dense array.      *)
(***************************************************************************)
\* An allocate that keeps the last free id in reserve.
allocate_off_by_one(base) ==
    IF ~debug_validate_slotmap(base) THEN Abort(base, None)
    ELSE LET len == base.len
             free_top == base.free_top
         IN IF free_top <= 1 THEN Return(base, None)
            ELSE LET new_free_top == free_top - 1
                     id == base.free_stack[new_free_top]
                     index == len
                     generation == base.generation[id]
                 IN Return([base EXCEPT
                          !.free_top = new_free_top,
                          !.len = (len + 1) % U16,
                          !.id_to_index[id] = index,
                          !.index_to_id[index] = id],
                      Some(<<id, generation>>))

\* An allocate that zeroes the dense slot it hands out.
allocate_zeroes_slot(base) ==
    IF ~debug_validate_slotmap(base) THEN Abort(base, None)
    ELSE LET len == base.len
             free_top == base.free_top
         IN IF free_top = 0 THEN Return(base, None)
            ELSE LET new_free_top == free_top - 1
                     id == base.free_stack[new_free_top]
                     index == len
                     generation == base.generation[id]
                     elem_size == base.element_size
                 IN Return([base EXCEPT
                          !.free_top = new_free_top,
                          !.len = (len + 1) % U16,
                          !.id_to_index[id] = index,
                          !.index_to_id[index] = id,
                          !.values = [k \in DOMAIN @ |->
                                         IF index * elem_size <= k
                                                /\ k < (index + 1) * elem_size
                                         THEN 0 ELSE @[k]]],
                      Some(<<id, generation>>))

allocate(base) ==
    IF ~debug_validate_slotmap(base) THEN Abort(base, None)
    ELSE LET len == base.len
             free_top == base.free_top
         IN IF free_top = 0 THEN Return(base, None)
            ELSE LET new_free_top == free_top - 1
                     id == base.free_stack[new_free_top]
                     index == len
                     generation == base.generation[id]
                 IN Return([base EXCEPT
                          !.free_top = new_free_top,
                          !.len = (len + 1) % U16,
                          !.id_to_index[id] = index,
                          !.index_to_id[index] = id],
                      Some(<<id, generation>>))

(***************************************************************************)
(* validate_handle: the dense index of a valid handle, or None.            *)
(***************************************************************************)
\* A validate_handle without the generation check.
validate_handle_any_generation(base, id, generation) ==
    IF id >= base.capacity THEN None
    ELSE LET index == base.id_to_index[id]
         IN IF index = INVALID_U16 THEN None ELSE Some(index)

\* A validate_handle without the id_to_index check.
validate_handle_ignores_id_to_index(base, id, generation) ==
    IF id >= base.capacity THEN None
    ELSE IF base.generation[id] # generation THEN None
    ELSE Some(base.id_to_index[id])

validate_handle(base, id, generation) ==
    IF id >= base.capacity THEN None
    ELSE IF base.generation[id] # generation THEN None
    ELSE LET index == base.id_to_index[id]
         IN IF index = INVALID_U16 THEN None ELSE Some(index)

\* A copy of one byte more than size: the last source byte is written twice.
copy_one_byte_too_many(values, src, offset, size) ==
    [k \in DOMAIN values |->
        IF offset <= k /\ k < offset + size THEN src[k - offset + 1]
        ELSE IF k = offset + size THEN src[size]
        ELSE values[k]]

\* ptr::copy_nonoverlapping(src, base.add(VALUES_OFFSET + offset), size):
\* values is indexed from VALUES_OFFSET, src from 1.
copy_nonoverlapping(values, src, offset, size) ==
    [k \in DOMAIN values |->
        IF offset <= k /\ k < offset + size THEN src[k - offset + 1] ELSE values[k]]

\* A swap that exchanges only the first byte of the two elements.
swap_first_byte_only(values, a, b, size) ==
    [k \in DOMAIN values |->
        IF k = a THEN values[b] ELSE IF k = b THEN values[a] ELSE values[k]]

\* ptr::swap_nonoverlapping(base.add(VALUES_OFFSET + a),
\*                          base.add(VALUES_OFFSET + b), size)
swap_nonoverlapping(values, a, b, size) ==
    [k \in DOMAIN values |->
        IF a <= k /\ k < a + size THEN values[b + (k - a)]
        ELSE IF b <= k /\ k < b + size THEN values[a + (k - b)]
        ELSE values[k]]

(***************************************************************************)
(* insert: copy element_size bytes from src into values[index].            *)
(***************************************************************************)
insert(base, id, generation, src) ==
    IF ~debug_validate_slotmap(base) THEN Abort(base, FALSE)
    ELSE LET element_size == base.element_size
             found == validate_handle(base, id, generation)
         IN IF found = None THEN Return(base, FALSE)
            ELSE LET index == found[1]
                     offset == index * element_size
                 IN Return([base EXCEPT
                          !.values = copy_nonoverlapping(@, src, offset, element_size)],
                      TRUE)

(***************************************************************************)
(* remove: swap-remove in the dense area, retire the id.  Its three steps  *)
(* after the handle validated: swap with the last element, clear the last  *)
(* slot's maps and decrement len, retire the id.                           *)
(***************************************************************************)
\* A swap step that re-points index_to_id but not id_to_index[moved_id].
remove_swap_forgets_id_to_index(base, index, last) ==
    IF index # last
    THEN LET elem_size == base.element_size
             moved_id == base.index_to_id[last]
         IN [base EXCEPT
                !.values = swap_nonoverlapping(@, index * elem_size,
                                               last * elem_size, elem_size),
                !.index_to_id[index] = moved_id]
    ELSE base

\* A swap step that marks the moved id free instead of re-pointing it.
remove_swap_drops_moved_id(base, index, last) ==
    IF index # last
    THEN LET elem_size == base.element_size
             moved_id == base.index_to_id[last]
         IN [base EXCEPT
                !.values = swap_nonoverlapping(@, index * elem_size,
                                               last * elem_size, elem_size),
                !.index_to_id[index] = moved_id,
                !.id_to_index[moved_id] = INVALID_U16]
    ELSE base

\* "If not removing the last element, swap with last"
remove_swap(base, index, last) ==
    IF index # last
    THEN LET elem_size == base.element_size
             moved_id == base.index_to_id[last]
         IN [base EXCEPT
                !.values = swap_nonoverlapping(@, index * elem_size,
                                               last * elem_size, elem_size),
                !.index_to_id[index] = moved_id,
                !.id_to_index[moved_id] = index]
    ELSE base

\* A clearing step that leaves index_to_id[last] as it was.
remove_clear_last_keeps_index_to_id(base, id, last) ==
    [base EXCEPT
        !.id_to_index[id] = INVALID_U16,
        !.len = last]

\* A clearing step that does not decrement len.
remove_clear_last_keeps_len(base, id, last) ==
    [base EXCEPT
        !.index_to_id[last] = INVALID_U16,
        !.id_to_index[id] = INVALID_U16]

\* "Clear last slot maps", "Decrement len"
remove_clear_last(base, id, last) ==
    [base EXCEPT
        !.index_to_id[last] = INVALID_U16,
        !.id_to_index[id] = INVALID_U16,
        !.len = last]

\* A retire step that pushes the id at the bottom of free_stack.
remove_retire_pushes_at_bottom(base, id) ==
    LET old_gen == base.generation[id]
        free_top == base.free_top
    IN [base EXCEPT
           !.generation[id] = (old_gen + 1) % U16,
           !.free_stack = [k \in DOMAIN @ |->
                              IF k = 0 THEN id
                              ELSE IF k <= free_top THEN @[k - 1] ELSE @[k]],
           !.free_top = (free_top + 1) % U16]

\* A retire step that pushes the id without incrementing free_top.
remove_retire_keeps_free_top(base, id) ==
    LET old_gen == base.generation[id]
        free_top == base.free_top
    IN [base EXCEPT
           !.generation[id] = (old_gen + 1) % U16,
           !.free_stack[free_top] = id]

\* A retire step that pushes the id without incrementing its generation.
remove_retire_keeps_generation(base, id) ==
    LET free_top == base.free_top
    IN [base EXCEPT
           !.free_stack[free_top] = id,
           !.free_top = (free_top + 1) % U16]

\* "Retire id: increment generation and push to free_stack"
remove_retire(base, id) ==
    LET old_gen == base.generation[id]
        free_top == base.free_top
    IN [base EXCEPT
           !.generation[id] = (old_gen + 1) % U16,
           !.free_stack[free_top] = id,
           !.free_top = (free_top + 1) % U16]

remove(base, id, generation) ==
    IF ~debug_validate_slotmap(base) THEN Abort(base, FALSE)
    ELSE LET found == validate_handle(base, id, generation)
         IN IF found = None THEN Return(base, FALSE)
            ELSE LET index == found[1]
                     len == base.len
                     last == (len + U16 - 1) % U16
                 IN Return(remove_retire(
                               remove_clear_last(
                                   remove_swap(base, index, last), id, last), id),
                           TRUE)

(***************************************************************************)
(* is_alive, get_value_ptr, insert_if_alive, element_count, element_size.  *)
(***************************************************************************)
is_alive(base, id, generation) ==
    IF ~debug_validate_slotmap(base) THEN Abort(base, FALSE)
    ELSE Return(base, validate_handle(base, id, generation) # None)

\* The pointer is modelled by its offset from base.
get_value_ptr(base, id, generation) ==
    IF ~debug_validate_slotmap(base) THEN Abort(base, None)
    ELSE LET element_size_val == base.element_size
             found == validate_handle(base, id, generation)
         IN IF found = None THEN Return(base, None)
            ELSE Return(base, Some(VALUES_OFFSET + found[1] * element_size_val))

\* An insert_if_alive that reports an alive handle without copying.
insert_if_alive_without_insert(base, id, generation, src) ==
    IF ~debug_validate_slotmap(base) THEN Abort(base, FALSE)
    ELSE IF is_alive(base, id, generation).ret
         THEN Return(base, TRUE)
         ELSE Return(base, FALSE)

insert_if_alive(base, id, generation, src) ==
    IF ~debug_validate_slotmap(base) THEN Abort(base, FALSE)
    ELSE IF is_alive(base, id, generation).ret
         THEN insert(base, id, generation, src)
         ELSE Return(base, FALSE)

element_count(base) == base.len

element_size(base) == base.element_size

\* A lookup that indexes generation by the dense index, not by the id.
get_generation_for_index_by_index(base, index) ==
    IF ~debug_validate_slotmap(base) THEN Abort(base, None)
    ELSE LET len == element_count(base)
         IN IF index >= len THEN Return(base, None)
            ELSE LET id == base.index_to_id[index]
                 IN IF id = INVALID_U16 THEN Return(base, None)
                    ELSE Return(base, Some(base.generation[index]))

\* "1. Gets the ID from index_to_id[index]  2. Gets the generation from
\* generation[id]"
get_generation_for_index(base, index) ==
    IF ~debug_validate_slotmap(base) THEN Abort(base, None)
    ELSE LET len == element_count(base)
         IN IF index >= len THEN Return(base, None)
            ELSE LET id == base.index_to_id[index]
                 IN IF id = INVALID_U16 THEN Return(base, None)
                    ELSE Return(base, Some(base.generation[id]))

\* The element_size bytes a caller reads through the pointer ptr.
read_value(base, ptr) ==
    [j \in 1 .. base.element_size |-> base.values[ptr - VALUES_OFFSET + (j - 1)]]

(***************************************************************************)
(* The state: the one region, and the history of the handles retired so   *)
(* far, which the region itself does not keep.                             *)
(*   retired: the handles a remove returned true for, each with the number *)
(*            of later successful removes of the same id.                  *)
(*   calls:   the calls of allocate and remove in progress, one per        *)
(*            caller, each at one of its reads and writes of the region,   *)
(*            with what it has read so far.  The specifications that run   *)
(*            every call as one step leave it at NoCalls.                  *)
(***************************************************************************)
VARIABLES region, retired, calls

vars == <<region, retired, calls>>

\* The two callers of SpecInterleaved.
Threads == {1, 2}

\* A caller between two calls; ret is what its last call returned.
Idle ==
    [ op |-> "idle", pc |-> "idle", id |-> 0, generation |-> 0, len |-> 0,
      free_top |-> 0, index |-> 0, last |-> 0, moved_id |-> 0, old_gen |-> 0,
      ret |-> <<"none">> ]

\*   thread:     each caller's call in progress
\*   overlapped: whether a caller has taken a step while the other was
\*               inside a call
\*   handed:     per id, how many handles allocate has returned for it
\*               since the last remove of it returned true
\*   started:    the number of calls begun
NoCalls ==
    [ thread |-> [t \in Threads |-> Idle], overlapped |-> FALSE,
      handed |-> <<>>, started |-> 0 ]

\* The handles alive in a region, as the bookkeeping arrays give them.
LiveHandles(base) ==
    {<<id, base.generation[id]>> : id \in {k \in Range(base.capacity) :
                                              base.id_to_index[k] # INVALID_U16}}

\* The handles the actions are called with: for every id of the region its
\* current generation and the one before it, and the first id out of range.
HandleArgsOf(base) ==
    UNION {{<<id, base.generation[id]>>,
            <<id, (base.generation[id] + U16 - 1) % U16>>} : id \in Range(base.capacity)}
        \cup {<<base.capacity, 1>>}
HandleArgs == HandleArgsOf(region)
\* The element_size bytes at src.
SrcArgs == [1 .. region.element_size -> Bytes]

\* What the caller's buffer may hold where the dense values will live.
Buffers(capacity, es) == [Range(capacity * es) -> Bytes]

Init ==
    /\ \E capacity \in 1 .. MaxCapacity, es \in 1 .. MaxValuesSize :
        /\ capacity * es <= MaxValuesSize
        /\ \E buffer \in Buffers(capacity, es) : region = init(capacity, es, buffer)
    /\ retired = {}
    /\ calls = NoCalls

Allocate ==
    /\ region' = allocate(region).base
    /\ UNCHANGED <<retired, calls>>

Clear ==
    /\ region' = clear(region).base
    /\ UNCHANGED <<retired, calls>>

Insert(id, generation, src) ==
    /\ region' = insert(region, id, generation, src).base
    /\ UNCHANGED <<retired, calls>>

InsertIfAlive(id, generation, src) ==
    /\ region' = insert_if_alive(region, id, generation, src).base
    /\ UNCHANGED <<retired, calls>>

\* The history after remove(id, generation) returned true.
Retire(id, generation) ==
    LET aged == {[r EXCEPT !.since = IF r.id = id /\ r.since < U16
                                     THEN r.since + 1 ELSE r.since] : r \in retired}
    IN IF Cardinality(retired) < MaxRetired
       THEN aged \cup {[id |-> id, generation |-> generation, since |-> 0]}
       ELSE aged

RemoveStep(id, generation) ==
    /\ region' = remove(region, id, generation).base
    /\ retired' = IF remove(region, id, generation).ret
                  THEN Retire(id, generation) ELSE retired
    /\ UNCHANGED calls

Remove(id, generation) ==
    /\ Cardinality(retired) < MaxRetired
    /\ RemoveStep(id, generation)

IsAlive(id, generation) ==
    /\ region' = is_alive(region, id, generation).base
    /\ UNCHANGED <<retired, calls>>

GetValuePtr(id, generation) ==
    /\ region' = get_value_ptr(region, id, generation).base
    /\ UNCHANGED <<retired, calls>>

GetGenerationForIndex(index) ==
    /\ region' = get_generation_for_index(region, index).base
    /\ UNCHANGED <<retired, calls>>

Next ==
    \/ Allocate
    \/ Clear
    \/ \E h \in HandleArgs, src \in SrcArgs : Insert(h[1], h[2], src)
    \/ \E h \in HandleArgs, src \in SrcArgs : InsertIfAlive(h[1], h[2], src)
    \/ \E h \in HandleArgs : Remove(h[1], h[2])
    \/ \E h \in HandleArgs : IsAlive(h[1], h[2])
    \/ \E h \in HandleArgs : GetValuePtr(h[1], h[2])
    \/ \E index \in Range(region.capacity + 1) : GetGenerationForIndex(index)

Spec == Init /\ [][Next]_vars

(***************************************************************************)
(* SpecWrap: one slot of one byte in a zeroed buffer, allocated, removed   *)
(* and cleared without bound, so that the 16-bit generation of id 0 goes   *)
(* all the way round.                                                      *)
(***************************************************************************)
InitWrap ==
    /\ region = init(1, 1, [k \in Range(1) |-> 0])
    /\ retired = {}
    /\ calls = NoCalls

NextWrap ==
    \/ Allocate
    \/ Clear
    \/ \E h \in HandleArgs : RemoveStep(h[1], h[2])
    \/ \E h \in HandleArgs : IsAlive(h[1], h[2])

SpecWrap == InitWrap /\ [][NextWrap]_vars

(***************************************************************************)
(* SpecBookkeeping: the calls of Spec on a zeroed buffer, as the tests     *)
(* allocate it, with zero bytes inserted.  No branch of lib.rs reads a     *)
(* value byte, so the header, the trailer and the four arrays go through   *)
(* the same states as under Spec.                                          *)
(***************************************************************************)
Zeroes(n) == [k \in Range(n) |-> 0]

ZeroSrc == [j \in 1 .. region.element_size |-> 0]

InitBookkeeping ==
    /\ \E capacity \in 1 .. MaxCapacity, es \in 1 .. MaxValuesSize :
        /\ capacity * es <= MaxValuesSize
        /\ region = init(capacity, es, Zeroes(capacity * es))
    /\ retired = {}
    /\ calls = NoCalls

NextBookkeeping ==
    \/ Allocate
    \/ Clear
    \/ \E h \in HandleArgs : Insert(h[1], h[2], ZeroSrc)
    \/ \E h \in HandleArgs : InsertIfAlive(h[1], h[2], ZeroSrc)
    \/ \E h \in HandleArgs : Remove(h[1], h[2])
    \/ \E h \in HandleArgs : IsAlive(h[1], h[2])
    \/ \E h \in HandleArgs : GetValuePtr(h[1], h[2])
    \/ \E index \in Range(region.capacity + 1) : GetGenerationForIndex(index)

SpecBookkeeping == InitBookkeeping /\ [][NextBookkeeping]_vars

(***************************************************************************)
(* SpecInit: the calls of Spec on a region init wrote with any             *)
(* element_size, 0 included: init takes every u32 and asserts only the     *)
(* alignment of base and capacity # 0.                                     *)
(***************************************************************************)
InitAny ==
    /\ \E capacity \in 1 .. MaxCapacity, es \in 0 .. MaxValuesSize :
        /\ capacity * es <= MaxValuesSize
        /\ \E buffer \in Buffers(capacity, es) : region = init(capacity, es, buffer)
    /\ retired = {}
    /\ calls = NoCalls

SpecInit == InitAny /\ [][Next]_vars

(***************************************************************************)
(* The handles of the claims about calls that fail: every id up to the     *)
(* first one out of range of the largest region and the sentinel; every    *)
(* generation a bounded run can store, 0, the sentinel and the generations *)
(* stored now.  The claims about calls next to a live handle take the      *)
(* other call's handle from HandleArgs.                                    *)
(***************************************************************************)
AllIds == (0 .. MaxCapacity) \cup {INVALID_U16}
AllGenerations ==
    (0 .. MaxRetired + 1) \cup {INVALID_U16}
        \cup {region.generation[k] : k \in Range(region.capacity)}
AllHandles == AllIds \X AllGenerations

\* The bytes a caller reads through get_value_ptr(id, generation).
ValueAt(base, id, generation) ==
    read_value(base, get_value_ptr(base, id, generation).ret[1])

\* The bytes of dense slot index.
Slot(base, index) ==
    [j \in 1 .. base.element_size |-> base.values[index * base.element_size + (j - 1)]]

\* The regions one call of a mutating function away from base.
Calls(base) ==
    {allocate(base).base, clear(base).base}
        \cup {remove(base, h[1], h[2]).base : h \in HandleArgsOf(base)}
        \cup {insert(base, h[1], h[2], src).base :
                  h \in HandleArgsOf(base), src \in [1 .. base.element_size -> Bytes]}

\* The regions at most n calls after one of S.
RECURSIVE After(_, _)
After(S, n) ==
    IF n = 0 THEN S ELSE After(S \cup UNION {Calls(b) : b \in S}, n - 1)

\* The results of n consecutive allocate calls from base, first to last.
RECURSIVE AllocateTimes(_, _)
AllocateTimes(base, n) ==
    IF n = 0 THEN <<>>
    ELSE <<allocate(base)>> \o AllocateTimes(allocate(base).base, n - 1)

(***************************************************************************)
(* C1: in every reachable state len + free_top = capacity and              *)
(* 0 <= len <= capacity.                                                   *)
(***************************************************************************)
C1_LenPlusFreeTop ==
    /\ region.len + region.free_top = region.capacity
    /\ 0 <= region.len
    /\ region.len <= region.capacity

\* Some ids live, some free, after a successful remove.
C1_Witness ==
    /\ region.len >= 1
    /\ region.free_top >= 1
    /\ retired # {}

(***************************************************************************)
(* C2: a handle allocate returns is alive at once, and an alive handle is  *)
(* still alive after any call but a successful remove of that handle or a  *)
(* clear: after allocate, insert, failing calls and removes of other       *)
(* handles, those that swap-move its element included.                     *)
(***************************************************************************)
C2_AliveUntilRemovedOrCleared ==
    /\ LET a == allocate(region)
       IN a.ret # None => is_alive(a.base, a.ret[1][1], a.ret[1][2]).ret
    /\ \A h \in LiveHandles(region) :
        LET alive(base) == is_alive(base, h[1], h[2]).ret
        IN /\ alive(region)
           /\ alive(allocate(region).base)
           /\ \A o \in HandleArgs :
               /\ o # h => alive(remove(region, o[1], o[2]).base)
               /\ alive(is_alive(region, o[1], o[2]).base)
               /\ alive(get_value_ptr(region, o[1], o[2]).base)
               /\ \A src \in SrcArgs :
                   /\ alive(insert(region, o[1], o[2], src).base)
                   /\ alive(insert_if_alive(region, o[1], o[2], src).base)

\* A handle of generation 1 at dense index 0 that was not allocated there:
\* the remove of another handle swap-moved it, and it is alive.
C2_Witness ==
    /\ retired # {}
    /\ \E h \in LiveHandles(region) :
        /\ h[2] = 1
        /\ h[1] # region.capacity - 1
        /\ region.id_to_index[h[1]] = 0
        /\ \E r \in retired : r.id # h[1]

(***************************************************************************)
(* C3 as stated: once remove(id, g) has returned true, (id, g) is never    *)
(* alive again and insert, insert_if_alive, remove and get_value_ptr with  *)
(* it fail, however often id is allocated again.                           *)
(***************************************************************************)
StaleFails(id, generation) ==
    /\ ~is_alive(region, id, generation).ret
    /\ ~remove(region, id, generation).ret
    /\ get_value_ptr(region, id, generation).ret = None
    /\ \A src \in SrcArgs :
        /\ ~insert(region, id, generation, src).ret
        /\ ~insert_if_alive(region, id, generation, src).ret

C3_StaleNeverAlive == \A r \in retired : StaleFails(r.id, r.generation)

(***************************************************************************)
(* C3 amended: once remove(id, g) has returned true, (id, g) is not alive  *)
(* and insert, insert_if_alive, remove and get_value_ptr with it fail in   *)
(* every later state in which id has been removed fewer than 2^16 times    *)
(* counting that remove, that is before generation[id] has gone all the    *)
(* way round to g.                                                         *)
(***************************************************************************)
C3_StaleNotAliveBeforeWrap ==
    \A r \in retired : r.since + 1 < U16 => StaleFails(r.id, r.generation)

\* A retired handle whose id was retired again and is allocated once more.
C3_Witness ==
    \E r \in retired :
        /\ r.since >= 1
        /\ r.since + 1 < U16
        /\ region.id_to_index[r.id] # INVALID_U16
        /\ StaleFails(r.id, r.generation)

(***************************************************************************)
(* C4: reading through get_value_ptr(id, g) right after a successful       *)
(* insert(id, g, src) yields src, and the bytes an alive handle resolves   *)
(* to are the same after any call that leaves it alive and is not an       *)
(* insert through that handle: allocate, inserts through other handles,    *)
(* removes of other handles.                                               *)
(***************************************************************************)
C4_RoundTripAndStable ==
    \A h \in LiveHandles(region) :
        LET value(base) == ValueAt(base, h[1], h[2])
            before == value(region)
        IN /\ \A src \in SrcArgs :
               /\ insert(region, h[1], h[2], src).ret
               /\ value(insert(region, h[1], h[2], src).base) = src
               /\ insert_if_alive(region, h[1], h[2], src).ret
               /\ value(insert_if_alive(region, h[1], h[2], src).base) = src
           /\ value(allocate(region).base) = before
           /\ \A o \in HandleArgs : o # h =>
               /\ value(remove(region, o[1], o[2]).base) = before
               /\ \A src \in SrcArgs :
                   /\ value(insert(region, o[1], o[2], src).base) = before
                   /\ value(insert_if_alive(region, o[1], o[2], src).base) = before

\* Two live elements of two bytes each with different bytes, the first at
\* the dense index a swap-remove moves the second to.
C4_Witness ==
    /\ region.element_size = 2
    /\ region.len = 2
    /\ \E h \in LiveHandles(region), o \in LiveHandles(region) :
        /\ region.id_to_index[o[1]] = 0
        /\ region.id_to_index[h[1]] = 1
        /\ ValueAt(region, h[1], h[2]) = <<0, 1>>
        /\ ValueAt(region, o[1], o[2]) = <<1, 0>>
        /\ ValueAt(remove(region, o[1], o[2]).base, h[1], h[2]) = <<0, 1>>

(***************************************************************************)
(* C5: a successful remove of a handle at dense index i # len - 1 leaves   *)
(* slot i holding the bytes slot len - 1 held, index_to_id[i] the id that  *)
(* was at len - 1 and id_to_index of that id equal to i, len one less, and *)
(* the dense index, bytes and mappings of every other live element as      *)
(* they were.                                                              *)
(***************************************************************************)
C5_SwapRemove ==
    \A h \in LiveHandles(region) :
        LET i == region.id_to_index[h[1]]
            last == region.len - 1
            moved == region.index_to_id[last]
            after == remove(region, h[1], h[2])
        IN i # last =>
            /\ after.ret
            /\ Slot(after.base, i) = Slot(region, last)
            /\ after.base.index_to_id[i] = moved
            /\ after.base.id_to_index[moved] = i
            /\ after.base.len = region.len - 1
            /\ \A o \in LiveHandles(region) : (o[1] # h[1] /\ o[1] # moved) =>
                LET j == region.id_to_index[o[1]]
                IN /\ after.base.id_to_index[o[1]] = j
                   /\ after.base.index_to_id[j] = o[1]
                   /\ after.base.generation[o[1]] = o[2]
                   /\ Slot(after.base, j) = Slot(region, j)

\* Three live elements, the one at dense index 0 about to be removed, the
\* bytes of the three slots not all the same.
C5_Witness ==
    /\ region.len = 3
    /\ Slot(region, 0) # Slot(region, 2)
    /\ Slot(region, 1) # Slot(region, 2)
    /\ LET id == region.index_to_id[0]
           after == remove(region, id, region.generation[id])
       IN /\ after.ret
          /\ after.base.len = 2
          /\ Slot(after.base, 0) = Slot(region, 2)
          /\ Slot(after.base, 1) = Slot(region, 1)

(***************************************************************************)
(* C6: in every reachable state index_to_id[i] is an id below capacity for *)
(* every i < len and is 0xFFFF for every len <= i < capacity.              *)
(***************************************************************************)
C6_DenseContiguity ==
    \A i \in Range(region.capacity) :
        IF i < region.len
        THEN region.index_to_id[i] < region.capacity /\ region.index_to_id[i] # INVALID_U16
        ELSE region.index_to_id[i] = INVALID_U16

\* A dense array that shrank: a remove succeeded, ids are live and a slot
\* past len is free.
C6_Witness ==
    /\ retired # {}
    /\ region.len >= 2
    /\ region.len < region.capacity
    /\ region.index_to_id[region.len] = INVALID_U16

(***************************************************************************)
(* C7: remove, insert and insert_if_alive called with a handle that is not *)
(* alive (removed before, never issued, of another generation, or with     *)
(* id >= capacity) return false and leave the whole region as it was; a    *)
(* second remove of a handle is such a call.                               *)
(***************************************************************************)
C7_FailureChangesNothing ==
    /\ \A h \in AllHandles \ LiveHandles(region) :
        /\ remove(region, h[1], h[2]) = Return(region, FALSE)
        /\ \A src \in SrcArgs :
            /\ insert(region, h[1], h[2], src) = Return(region, FALSE)
            /\ insert_if_alive(region, h[1], h[2], src) = Return(region, FALSE)
    /\ \A r \in retired :
        /\ <<r.id, r.generation>> \in AllHandles \ LiveHandles(region)
        /\ remove(region, r.id, r.generation) = Return(region, FALSE)

\* A removed handle whose id is allocated again: the second remove of it
\* fails and changes nothing.
C7_Witness ==
    \E r \in retired :
        /\ region.id_to_index[r.id] # INVALID_U16
        /\ remove(region, r.id, r.generation) = Return(region, FALSE)

(***************************************************************************)
(* C8: allocate returns None exactly when len = capacity, which is when    *)
(* free_top = 0, and then changes nothing; from init, or after clear,      *)
(* exactly capacity consecutive allocate calls succeed, with pairwise      *)
(* distinct ids that cover 0..capacity-1, and the next returns None.       *)
(***************************************************************************)
C8_AllocateUntilFull ==
    /\ allocate(region).ret = None <=> region.len = region.capacity
    /\ allocate(region).ret = None <=> region.free_top = 0
    /\ allocate(region).ret = None => allocate(region) = Return(region, None)
    /\ \A start \in {clear(region).base}
                      \cup (IF region.len = 0 /\ retired = {} THEN {region} ELSE {}) :
        LET run == AllocateTimes(start, region.capacity + 1)
        IN /\ \A k \in 1 .. region.capacity : run[k].ret # None
           /\ {run[k].ret[1][1] : k \in 1 .. region.capacity} = Range(region.capacity)
           /\ run[region.capacity + 1].ret = None

\* A full region of more than one slot: allocate returns None.
C8_Witness ==
    /\ region.capacity >= 2
    /\ region.len = region.capacity
    /\ allocate(region) = Return(region, None)

(***************************************************************************)
(* C9: every handle alive when clear is called is not alive right after    *)
(* the clear, nor after any later allocate, insert, remove or clear calls  *)
(* (followed here for MaxLater calls).                                     *)
(***************************************************************************)
C9_ClearInvalidatesForever ==
    \A h \in LiveHandles(region) :
        \A later \in After({clear(region).base}, MaxLater) :
            ~is_alive(later, h[1], h[2]).ret

(***************************************************************************)
(* C10: clear sets len = 0 and free_top = capacity, id_to_index[k] =       *)
(* index_to_id[k] = 0xFFFF and free_stack[k] = k for every k < capacity,   *)
(* and leaves capacity, element_size, the trailer magic and echo, every    *)
(* generation and every value byte as they were: what init writes, but for *)
(* the generations and the value bytes.                                    *)
(***************************************************************************)
C10_ClearPostcondition ==
    LET c == clear(region).base
    IN /\ c.len = 0
       /\ c.free_top = region.capacity
       /\ \A k \in Range(region.capacity) :
            /\ c.id_to_index[k] = INVALID_U16
            /\ c.index_to_id[k] = INVALID_U16
            /\ c.free_stack[k] = k
       /\ c.capacity = region.capacity
       /\ c.element_size = region.element_size
       /\ c.magic = region.magic
       /\ c.trailer_elem_size = region.trailer_elem_size
       /\ c.generation = region.generation
       /\ c.values = region.values
       /\ c = [init(region.capacity, region.element_size, region.values)
                   EXCEPT !.generation = region.generation]

\* A region with live ids, a free stack out of order and a generation
\* above 1, which clear resets.
C10_Witness ==
    /\ region.len >= 1
    /\ \E k \in Range(region.capacity) : region.generation[k] > 1
    /\ \E k \in Range(region.capacity) : region.free_stack[k] # k
    /\ clear(region).base # region
    /\ clear(region).base.len = 0
    /\ clear(region).base.generation = region.generation

(***************************************************************************)
(* C11: the generations that successive successful allocate calls return   *)
(* for one id are strictly increasing, whatever allocate, remove, insert   *)
(* and clear calls come in between (followed here for MaxLater calls, in   *)
(* runs too short for a generation to wrap).                               *)
(***************************************************************************)
C11_IssuedGenerationsIncrease ==
    LET first == allocate(region)
    IN first.ret # None =>
        \A later \in After({first.base}, MaxLater) :
            LET next == allocate(later)
            IN (next.ret # None /\ next.ret[1][1] = first.ret[1][1])
                   => next.ret[1][2] > first.ret[1][2]

(***************************************************************************)
(* C12: in every reachable state generation[id] # 0 for every              *)
(* id < capacity, allocate does not return a handle of generation 0, and   *)
(* is_alive(id, 0), remove(id, 0) and insert_if_alive(id, 0, ..) return    *)
(* false for every id.                                                     *)
(***************************************************************************)
C12_GenerationNeverZero ==
    /\ \A id \in Range(region.capacity) : region.generation[id] # 0
    /\ allocate(region).ret # None => allocate(region).ret[1][2] # 0
    /\ \A id \in AllIds :
        /\ ~is_alive(region, id, 0).ret
        /\ ~remove(region, id, 0).ret
        /\ \A src \in SrcArgs : ~insert_if_alive(region, id, 0, src).ret

(***************************************************************************)
(* C13: when k live handles are removed one after the other with no        *)
(* allocate or clear in between, the next k allocate calls return the same *)
(* ids in the reverse order, each with its generation one higher           *)
(* (modulo 2^16); for k = 1, allocate right after a successful             *)
(* remove(id, g) returns (id, g + 1).                                      *)
(***************************************************************************)
\* The sequences of pairwise different handles of S.
RECURSIVE Orders(_)
Orders(S) ==
    {<<>>} \cup UNION {{<<h>> \o rest : rest \in Orders(S \ {h})} : h \in S}

\* The region after remove was called with the handles of order, first to
\* last; every one of the calls returns true.
RECURSIVE RemoveAll(_, _)
RemoveAll(base, order) ==
    IF order = <<>> THEN base
    ELSE RemoveAll(remove(base, order[1][1], order[1][2]).base, Tail(order))

C13_LifoReuse ==
    \A order \in Orders(LiveHandles(region)) :
        LET k == Len(order)
            run == AllocateTimes(RemoveAll(region, order), k)
        IN \A j \in 1 .. k :
            run[j].ret = Some(<<order[k + 1 - j][1], (order[k + 1 - j][2] + 1) % U16>>)

\* Three live handles, not all of the generation init gave them: removing
\* them lowest id first gives the ids back highest id first.
C13_Witness ==
    /\ region.len = 3
    /\ \E id \in Range(region.capacity) : region.generation[id] > 1
    /\ LET order == <<<<0, region.generation[0]>>, <<1, region.generation[1]>>,
                      <<2, region.generation[2]>>>>
           run == AllocateTimes(RemoveAll(region, order), 3)
       IN /\ run[1].ret[1][1] = 2
          /\ run[2].ret[1][1] = 1
          /\ run[3].ret[1][1] = 0

C15_AliveIff ==
    \A h \in AllHandles :
        LET valid == /\ h[1] < region.capacity
                     /\ region.generation[h[1]] = h[2]
                     /\ region.id_to_index[h[1]] # INVALID_U16
        IN /\ is_alive(region, h[1], h[2]).ret = valid
           /\ (get_value_ptr(region, h[1], h[2]).ret # None) = valid
           /\ remove(region, h[1], h[2]).ret = valid
           /\ \A src \in SrcArgs : insert(region, h[1], h[2], src).ret = valid

\* A freed id whose stored generation a handle matches, next to a live id:
\* the first is not alive, the second is.
C15_Witness ==
    /\ retired # {}
    /\ \E id \in Range(region.capacity), other \in Range(region.capacity) :
        /\ region.id_to_index[id] = INVALID_U16
        /\ region.generation[id] > 1
        /\ ~is_alive(region, id, region.generation[id]).ret
        /\ ~remove(region, id, region.generation[id]).ret
        /\ is_alive(region, other, region.generation[other]).ret
        /\ ~is_alive(region, region.capacity, 1).ret

(***************************************************************************)
(* C16: element_count is the number of ids k with id_to_index[k] # 0xFFFF; *)
(* it is 0 after init and after clear, one more after an allocate that     *)
(* returns Some, one less after a remove that returns true and the same    *)
(* after every other call, hence the number of successful allocates less   *)
(* the number of successful removes since the last init or clear.          *)
(***************************************************************************)
C16_ElementCount ==
    LET count == element_count(region)
    IN /\ count = Cardinality({k \in Range(region.capacity) :
                                   region.id_to_index[k] # INVALID_U16})
       /\ count = Cardinality(LiveHandles(region))
       /\ element_count(init(region.capacity, region.element_size, region.values)) = 0
       /\ element_count(clear(region).base) = 0
       /\ element_count(allocate(region).base)
              = count + (IF allocate(region).ret # None THEN 1 ELSE 0)
       /\ \A h \in HandleArgs :
           /\ element_count(remove(region, h[1], h[2]).base)
                  = count - (IF remove(region, h[1], h[2]).ret THEN 1 ELSE 0)
           /\ \A src \in SrcArgs :
               /\ element_count(insert(region, h[1], h[2], src).base) = count
               /\ element_count(insert_if_alive(region, h[1], h[2], src).base) = count

\* Two live ids after two successful removes: four allocates less two
\* removes.
C16_Witness ==
    /\ region.capacity = 3
    /\ Cardinality(retired) = 2
    /\ \A k \in Range(3) : region.generation[k] <= 2
    /\ element_count(region) = 2

(***************************************************************************)
(* C17: for every dense index i < element_count,                           *)
(* get_generation_for_index(i) returns Some(g) with                        *)
(* g = generation[index_to_id[i]], and the handle (index_to_id[i], g) is   *)
(* alive and resolves to dense index i; for every i >= element_count it    *)
(* returns None.                                                           *)
(***************************************************************************)
C17_GenerationForIndex ==
    \A i \in AllIds :
        LET got == get_generation_for_index(region, i)
        IN IF i < element_count(region)
           THEN LET id == region.index_to_id[i]
                IN /\ got = Return(region, Some(region.generation[id]))
                   /\ is_alive(region, id, got.ret[1]).ret
                   /\ validate_handle(region, id, got.ret[1]) = Some(i)
                   /\ get_value_ptr(region, id, got.ret[1]).ret
                          = Some(VALUES_OFFSET + i * region.element_size)
           ELSE got = Return(region, None)

\* A dense index whose id is another number and has another generation
\* than the id of that number.
C17_Witness ==
    /\ region.len >= 1
    /\ LET id == region.index_to_id[0]
       IN /\ id # 0
          /\ region.generation[id] # region.generation[0]
          /\ get_generation_for_index(region, 0).ret = Some(region.generation[id])
          /\ get_generation_for_index(region, region.len).ret = None

(***************************************************************************)
(* C18: every state reachable from init with capacity >= 1 and             *)
(* 1 <= element_size <= 1 MiB by allocate, insert, insert_if_alive,        *)
(* remove, clear, is_alive and get_value_ptr calls with any arguments      *)
(* passes the debug self-check, and no such call on it ends in a failed    *)
(* assertion.                                                              *)
(***************************************************************************)
C18_NeverFatal ==
    /\ debug_validate_slotmap(region)
    /\ ~allocate(region).panic
    /\ ~clear(region).panic
    /\ \A h \in HandleArgs \cup {<<0, 0>>, <<INVALID_U16, INVALID_U16>>} :
        /\ ~remove(region, h[1], h[2]).panic
        /\ ~is_alive(region, h[1], h[2]).panic
        /\ ~get_value_ptr(region, h[1], h[2]).panic
        /\ \A src \in SrcArgs :
            /\ ~insert(region, h[1], h[2], src).panic
            /\ ~insert_if_alive(region, h[1], h[2], src).panic

\* A full region with a retired handle: allocate, a second remove and a
\* call with an id out of range return None and false.
C18_Witness ==
    /\ region.len = region.capacity
    /\ \E r \in retired :
        /\ remove(region, r.id, r.generation) = Return(region, FALSE)
        /\ \A src \in SrcArgs :
            insert(region, r.id, r.generation, src) = Return(region, FALSE)
    /\ allocate(region) = Return(region, None)
    /\ is_alive(region, region.capacity, 1) = Return(region, FALSE)
    /\ get_value_ptr(region, INVALID_U16, INVALID_U16) = Return(region, None)

(***************************************************************************)
(* C19: for every capacity # 0 and every element_size passed to init, the  *)
(* region init wrote passes the debug self-check, so that the first        *)
(* allocate, is_alive, insert, remove or clear call after init does not    *)
(* abort.                                                                  *)
(***************************************************************************)
C19_InitIsValid ==
    (retired = {} /\ region = init(region.capacity, region.element_size, region.values)) =>
        /\ debug_validate_slotmap(region)
        /\ ~allocate(region).panic
        /\ ~clear(region).panic
        /\ \A h \in HandleArgs :
            /\ ~is_alive(region, h[1], h[2]).panic
            /\ ~remove(region, h[1], h[2]).panic
            /\ \A src \in SrcArgs : ~insert(region, h[1], h[2], src).panic

(***************************************************************************)
(* C20: allocate, insert, insert_if_alive, remove, is_alive, clear and     *)
(* get_value_ptr called on a region with capacity = 0, len > capacity,     *)
(* element_size = 0 or above 1 MiB, a trailer magic other than the         *)
(* constant, a trailer element-size echo other than element_size,          *)
(* free_top > capacity or len + free_top # capacity end in the failed      *)
(* assertion and leave every byte of the region as it was.                 *)
(***************************************************************************)
\* base with one field overwritten so that one of the conditions holds.
Corruptions(base) ==
    {[base EXCEPT !.capacity = 0],
     [base EXCEPT !.len = base.capacity + 1],
     [base EXCEPT !.len = INVALID_U16],
     [base EXCEPT !.element_size = 0],
     [base EXCEPT !.element_size = 0, !.trailer_elem_size = 0],
     [base EXCEPT !.element_size = MAX_ELEMENT_SIZE + 1],
     [base EXCEPT !.element_size = MAX_ELEMENT_SIZE + 1,
                  !.trailer_elem_size = MAX_ELEMENT_SIZE + 1],
     [base EXCEPT !.magic = 0],
     [base EXCEPT !.magic = SVEC_TRAILER_MAGIC + 1],
     [base EXCEPT !.trailer_elem_size = base.element_size + 1],
     [base EXCEPT !.free_top = base.capacity + 1]}
        \cup {[base EXCEPT !.free_top = f] :
                  f \in {g \in 0 .. base.capacity : base.len + g # base.capacity}}
        \cup {[base EXCEPT !.len = l] :
                  l \in {m \in 0 .. base.capacity : m + base.free_top # base.capacity}}

\* The call ended in the failed assertion and wrote nothing.
Aborted(call, base) == call.panic /\ call.base = base

C20_CorruptionAborts ==
    \A c \in Corruptions(region) :
        /\ Aborted(allocate(c), c)
        /\ Aborted(clear(c), c)
        /\ \A h \in HandleArgs :
            /\ Aborted(is_alive(c, h[1], h[2]), c)
            /\ Aborted(get_value_ptr(c, h[1], h[2]), c)
            /\ Aborted(remove(c, h[1], h[2]), c)
            /\ \A src \in SrcArgs :
                /\ Aborted(insert(c, h[1], h[2], src), c)
                /\ Aborted(insert_if_alive(c, h[1], h[2], src), c)

\* A region with a live handle on which remove and allocate would succeed:
\* with its trailer magic overwritten, or one free slot too many, they
\* abort and write nothing.
C20_Witness ==
    /\ region.len >= 1
    /\ region.free_top >= 1
    /\ \E h \in LiveHandles(region) :
        /\ remove(region, h[1], h[2]).ret
        /\ \A c \in {[region EXCEPT !.magic = 0],
                     [region EXCEPT !.free_top = region.free_top + 1]} :
            /\ Aborted(remove(c, h[1], h[2]), c)
            /\ Aborted(allocate(c), c)
    /\ allocate(region).ret # None

(***************************************************************************)
(* C21: for every reachable state and every (id, generation, src),         *)
(* insert_if_alive returns the same boolean as insert and leaves the       *)
(* region in the same final state.                                         *)
(***************************************************************************)
C21_InsertIfAliveIsInsert ==
    \A h \in HandleArgs \cup {<<0, 0>>, <<INVALID_U16, INVALID_U16>>} :
        \A src \in SrcArgs :
            LET guarded == insert_if_alive(region, h[1], h[2], src)
                plain == insert(region, h[1], h[2], src)
            IN /\ guarded.ret = plain.ret
               /\ guarded.base = plain.base
               /\ guarded.panic = plain.panic

\* A live handle whose bytes both calls change, next to a retired handle
\* both calls refuse.
C21_Witness ==
    /\ \E h \in LiveHandles(region), src \in SrcArgs :
        /\ insert_if_alive(region, h[1], h[2], src).ret
        /\ insert_if_alive(region, h[1], h[2], src).base # region
        /\ insert(region, h[1], h[2], src).base.values # region.values
    /\ \E r \in retired, src \in SrcArgs :
        /\ ~insert_if_alive(region, r.id, r.generation, src).ret
        /\ ~insert(region, r.id, r.generation, src).ret

(***************************************************************************)
(* C23: in every reachable state id_to_index[index_to_id[i]] = i for every *)
(* i < len, and for every id < capacity with id_to_index[id] # 0xFFFF,     *)
(* id_to_index[id] < len and index_to_id[id_to_index[id]] = id; different  *)
(* live ids are at different dense indices.                                *)
(***************************************************************************)
C23_IndexIdConsistency ==
    /\ \A i \in Range(region.len) :
        /\ region.index_to_id[i] < region.capacity
        /\ region.id_to_index[region.index_to_id[i]] = i
    /\ \A id \in Range(region.capacity) :
        region.id_to_index[id] # INVALID_U16 =>
            /\ region.id_to_index[id] < region.len
            /\ region.index_to_id[region.id_to_index[id]] = id
    /\ \A a \in Range(region.capacity), b \in Range(region.capacity) :
        (a # b /\ region.id_to_index[a] # INVALID_U16
               /\ region.id_to_index[b] # INVALID_U16)
            => region.id_to_index[a] # region.id_to_index[b]

\* Two live ids after a swap-remove: the id at dense index 0 is not the id
\* allocated first.
C23_Witness ==
    /\ region.capacity = 3
    /\ region.len = 2
    /\ retired # {}
    /\ region.index_to_id[0] # 2
    /\ region.id_to_index[region.index_to_id[0]] = 0
    /\ region.id_to_index[region.index_to_id[1]] = 1

(***************************************************************************)
(* C24: in every reachable state the entries free_stack[0 .. free_top)     *)
(* are pairwise different ids < capacity and are exactly the ids with      *)
(* id_to_index = 0xFFFF, so that every id is live or on the free stack and *)
(* never both, and allocate does not return an id that is live.            *)
(***************************************************************************)
FreeIds(base) == {base.free_stack[k] : k \in Range(base.free_top)}

C24_FreeStackPartition ==
    /\ \A k \in Range(region.free_top) : region.free_stack[k] < region.capacity
    /\ Cardinality(FreeIds(region)) = region.free_top
    /\ FreeIds(region)
           = {id \in Range(region.capacity) : region.id_to_index[id] = INVALID_U16}
    /\ FreeIds(region) \cap {h[1] : h \in LiveHandles(region)} = {}
    /\ FreeIds(region) \cup {h[1] : h \in LiveHandles(region)} = Range(region.capacity)
    /\ LET a == allocate(region)
       IN a.ret # None =>
           /\ region.id_to_index[a.ret[1][1]] = INVALID_U16
           /\ a.ret[1][1] \in FreeIds(region)
           /\ a.ret[1][1] \notin FreeIds(a.base)

\* Two ids on the free stack in the order of their removal, not in the
\* order init wrote, and one live id.
C24_Witness ==
    /\ region.capacity = 3
    /\ region.free_top = 2
    /\ Cardinality(retired) = 2
    /\ region.free_stack[0] > region.free_stack[1]
    /\ region.id_to_index[region.free_stack[0]] = INVALID_U16
    /\ region.id_to_index[region.free_stack[1]] = INVALID_U16

(***************************************************************************)
(* C26: a successful remove(id, g) changes generation[id] from g to        *)
(* (g + 1) mod 2^16 and no other generation; allocate, insert,             *)
(* insert_if_alive, clear, is_alive and every failing call leave the       *)
(* generation array as it was, and allocate returns the generation stored  *)
(* for the id it pops.                                                     *)
(***************************************************************************)
C26_GenerationFrame ==
    /\ \A h \in AllHandles :
        LET removed == remove(region, h[1], h[2])
        IN /\ removed.ret =>
               removed.base.generation
                   = [region.generation EXCEPT ![h[1]] = (h[2] + 1) % U16]
           /\ ~removed.ret => removed.base.generation = region.generation
           /\ is_alive(region, h[1], h[2]).base.generation = region.generation
           /\ \A src \in SrcArgs :
               /\ insert(region, h[1], h[2], src).base.generation = region.generation
               /\ insert_if_alive(region, h[1], h[2], src).base.generation
                      = region.generation
    /\ clear(region).base.generation = region.generation
    /\ LET a == allocate(region)
       IN /\ a.base.generation = region.generation
          /\ a.ret # None => a.ret[1][2] = region.generation[a.ret[1][1]]

\* Generations that differ from id to id, with a live handle whose remove
\* advances one of them.
C26_Witness ==
    /\ \E a \in Range(region.capacity), b \in Range(region.capacity) :
        region.generation[a] # region.generation[b]
    /\ \E h \in LiveHandles(region) :
        /\ h[2] > 1
        /\ remove(region, h[1], h[2]).base.generation[h[1]] = h[2] + 1

(***************************************************************************)
(* The byte layout of a region: offsets from base of the header, the dense *)
(* values, the trailer header and the four u16 arrays.                     *)
(***************************************************************************)
MaxLayoutCapacity == 4
MaxLayoutElementSize == 8

\* An align4 that rounds down instead of up.
align4_rounds_down(x) == x - (x % 4)

\* (x + 3) & !3
align4(x) == (x + 3) - ((x + 3) % 4)

trailer_offset(capacity, elem_size) ==
    LET values_size == capacity * elem_size
    IN align4(VALUES_OFFSET + values_size)

arrays_offset(capacity, elem_size) ==
    align4(trailer_offset(capacity, elem_size) + TRAILER_HEADER_SIZE)

\* size_of::<u16>()
SizeOfU16 == 2

layout_size(capacity, elem_size) ==
    LET cap == capacity
        arrays_off == arrays_offset(capacity, elem_size)
        arrays_size == 4 * cap * SizeOfU16
    IN arrays_off + arrays_size

id_to_index_ptr(capacity, elem_size) == arrays_offset(capacity, elem_size)

index_to_id_ptr(capacity, elem_size) ==
    arrays_offset(capacity, elem_size) + capacity * SizeOfU16

generation_ptr(capacity, elem_size) ==
    arrays_offset(capacity, elem_size) + 2 * capacity * SizeOfU16

free_stack_ptr(capacity, elem_size) ==
    arrays_offset(capacity, elem_size) + 3 * capacity * SizeOfU16

free_top_ptr(capacity, elem_size) == trailer_offset(capacity, elem_size) + 8

\* ptr::write(base.add(at).cast::<T>(), _) with size_of::<T>() = size
Write(at, size) == [at |-> at, size |-> size]

\* Every ptr::write of init, in the order of the code.
init_writes(capacity, elem_size) ==
    LET trailer_off == trailer_offset(capacity, elem_size)
    IN {Write(0, 2), Write(2, 2), Write(4, 4)}
       \cup {Write(trailer_off, 4), Write(trailer_off + 4, 4),
             Write(trailer_off + 8, 2), Write(trailer_off + 10, 2)}
       \cup {Write(id_to_index_ptr(capacity, elem_size) + i * SizeOfU16, SizeOfU16)
                : i \in Range(capacity)}
       \cup {Write(index_to_id_ptr(capacity, elem_size) + i * SizeOfU16, SizeOfU16)
                : i \in Range(capacity)}
       \cup {Write(generation_ptr(capacity, elem_size) + i * SizeOfU16, SizeOfU16)
                : i \in Range(capacity)}
       \cup {Write(free_stack_ptr(capacity, elem_size) + i * SizeOfU16, SizeOfU16)
                : i \in Range(capacity)}

(***************************************************************************)
(* SpecLayout: regions of every capacity up to MaxLayoutCapacity and every *)
(* element_size up to MaxLayoutElementSize, in a zeroed buffer of          *)
(* layout_size bytes, filled and cleared.                                  *)
(***************************************************************************)
InitLayout ==
    /\ \E capacity \in 1 .. MaxLayoutCapacity, es \in 1 .. MaxLayoutElementSize :
        region = init(capacity, es, Zeroes(capacity * es))
    /\ retired = {}
    /\ calls = NoCalls

NextLayout ==
    \/ Allocate
    \/ Clear

SpecLayout == InitLayout /\ [][NextLayout]_vars

(***************************************************************************)
(* C22: the trailer offset T is 8 + capacity * element_size rounded up to  *)
(* a multiple of 4, the arrays offset A is T + 12 rounded up to a multiple *)
(* of 4 and layout_size is A + 8 * capacity; header, dense values, trailer *)
(* header and the arrays id_to_index, index_to_id, generation, free_stack  *)
(* follow one another in that order without overlap, the last ending at    *)
(* layout_size; every write of init lies inside [0, layout_size) and       *)
(* outside the dense values.                                               *)
(***************************************************************************)
C22_Layout ==
    LET capacity == region.capacity
        es == region.element_size
        values_end == VALUES_OFFSET + capacity * es
        T == trailer_offset(capacity, es)
        A == arrays_offset(capacity, es)
        size == layout_size(capacity, es)
    IN /\ T % 4 = 0 /\ values_end <= T /\ T < values_end + 4
       /\ A % 4 = 0 /\ T + TRAILER_HEADER_SIZE <= A /\ A < T + TRAILER_HEADER_SIZE + 4
       /\ size = A + 8 * capacity
       /\ HEADER_SIZE = VALUES_OFFSET
       /\ values_end = VALUES_OFFSET + Cardinality(DOMAIN region.values)
       /\ free_top_ptr(capacity, es) = T + 8
       /\ id_to_index_ptr(capacity, es) = A
       /\ index_to_id_ptr(capacity, es) = A + 2 * capacity
       /\ generation_ptr(capacity, es) = A + 4 * capacity
       /\ free_stack_ptr(capacity, es) = A + 6 * capacity
       /\ free_stack_ptr(capacity, es) + 2 * capacity = size
       /\ \A w \in init_writes(capacity, es) :
           /\ 0 <= w.at
           /\ w.at + w.size <= size
           /\ w.at + w.size <= VALUES_OFFSET \/ T <= w.at
           /\ w.at < T + TRAILER_HEADER_SIZE \/ A <= w.at
       /\ \A k \in Range(size) :
           (k < VALUES_OFFSET \/ (T <= k /\ k < T + TRAILER_HEADER_SIZE) \/ A <= k)
               => Cardinality({w \in init_writes(capacity, es) :
                                  w.at <= k /\ k < w.at + w.size}) = 1

\* Three elements of three bytes: the values end at 17, three bytes of
\* padding put the trailer at 20 and the arrays at 32, 38, 44 and 50, and
\* the region is 56 bytes, all three elements allocated.
C22_Witness ==
    /\ region.capacity = 3
    /\ region.element_size = 3
    /\ region.len = 3
    /\ trailer_offset(3, 3) = 20
    /\ id_to_index_ptr(3, 3) = 32
    /\ free_stack_ptr(3, 3) = 50
    /\ layout_size(3, 3) = 56
    /\ Write(54, 2) \in init_writes(3, 3)

(***************************************************************************)
(* C25: no subtraction underflows and no access is out of range: a handle  *)
(* validate_handle accepts has id < capacity and index <= len - 1 with     *)
(* len >= 1, so remove's len - 1 is a u16 and its free_top + 1 is at most  *)
(* capacity; allocate's len + 1 is at most capacity and the id it pops is  *)
(* < capacity; every id and dense index stored in index_to_id, id_to_index *)
(* and the free stack is < capacity, hence never the sentinel 0xFFFF.      *)
(***************************************************************************)
C25_NoUnderflow ==
    LET capacity == region.capacity
        len == region.len
        free_top == region.free_top
    IN /\ capacity < U16
       /\ len <= capacity /\ free_top <= capacity
       /\ \A h \in AllHandles :
           LET found == validate_handle(region, h[1], h[2])
           IN found # None =>
                  /\ h[1] < capacity
                  /\ len >= 1
                  /\ found[1] <= len - 1
                  /\ (len + U16 - 1) % U16 = len - 1
                  /\ len - 1 < capacity
                  /\ region.index_to_id[len - 1] < capacity
                  /\ free_top < capacity
                  /\ free_top + 1 <= capacity
                  /\ remove(region, h[1], h[2]).base.len = len - 1
                  /\ remove(region, h[1], h[2]).base.free_top = free_top + 1
       /\ free_top > 0 =>
              /\ len < capacity
              /\ len + 1 <= capacity
              /\ region.free_stack[free_top - 1] < capacity
              /\ allocate(region).base.len = len + 1
       /\ \A index \in Range(len) :
           /\ region.index_to_id[index] < capacity
           /\ region.index_to_id[index] # INVALID_U16
       /\ \A id \in Range(capacity) :
           region.id_to_index[id] # INVALID_U16 => region.id_to_index[id] < len
       /\ \A k \in Range(free_top) :
           /\ region.free_stack[k] < capacity
           /\ region.free_stack[k] # INVALID_U16
       /\ \A index \in Range(capacity + 1) :
           get_generation_for_index(region, index).ret # None => index < len

\* A full region: allocate stops before len + 1, and the remove of the
\* element at index 0 computes len - 1 = capacity - 1 and pushes at
\* free_top = 0.
C25_Witness ==
    /\ region.capacity = MaxCapacity
    /\ region.len = region.capacity
    /\ region.free_top = 0
    /\ retired # {}
    /\ allocate(region).ret = None
    /\ LET id == region.index_to_id[0]
           removed == remove(region, id, region.generation[id])
       IN /\ removed.ret
          /\ removed.base.len = region.capacity - 1
          /\ removed.base.free_top = 1

(***************************************************************************)
(* C27: allocate, whether it returns Some or None, clear, is_alive,        *)
(* failing calls and a successful remove of the element at dense index     *)
(* len - 1 leave every dense value byte as it was; a handle allocate just  *)
(* returned resolves to the bytes its dense slot held before.              *)
(***************************************************************************)
C27_ValueFrame ==
    /\ clear(region).base.values = region.values
    /\ LET a == allocate(region)
       IN /\ a.base.values = region.values
          /\ a.ret # None =>
               ValueAt(a.base, a.ret[1][1], a.ret[1][2]) = Slot(region, region.len)
    /\ \A h \in HandleArgs \cup {<<0, 0>>, <<INVALID_U16, INVALID_U16>>} :
        LET removed == remove(region, h[1], h[2])
        IN /\ is_alive(region, h[1], h[2]).base.values = region.values
           /\ get_value_ptr(region, h[1], h[2]).base.values = region.values
           /\ ~removed.ret => removed.base.values = region.values
           /\ (removed.ret /\ region.id_to_index[h[1]] = region.len - 1)
                  => removed.base.values = region.values
           /\ \A src \in SrcArgs :
               /\ ~insert(region, h[1], h[2], src).ret
                      => insert(region, h[1], h[2], src).base.values = region.values
               /\ ~insert_if_alive(region, h[1], h[2], src).ret
                      => insert_if_alive(region, h[1], h[2], src).base.values
                             = region.values

\* A free dense slot that holds a byte other than 0, left by an element
\* since removed: the next allocate hands it out as it is.
C27_Witness ==
    /\ retired # {}
    /\ region.len < region.capacity
    /\ \E j \in 1 .. region.element_size : Slot(region, region.len)[j] = 1
    /\ LET a == allocate(region)
       IN /\ a.ret # None
          /\ ValueAt(a.base, a.ret[1][1], a.ret[1][2]) = Slot(region, region.len)

(***************************************************************************)
(* C28: a successful insert(id, g, src) writes the element_size bytes of   *)
(* src over dense slot id_to_index[id] and leaves capacity, len,           *)
(* element_size, free_top, both index maps, all generations, the free      *)
(* stack and the bytes of every other dense slot as they were.             *)
(***************************************************************************)
C28_InsertFrame ==
    \A h \in LiveHandles(region) :
        \A src \in SrcArgs :
            LET index == region.id_to_index[h[1]]
                after == insert(region, h[1], h[2], src)
            IN /\ after.ret
               /\ Slot(after.base, index) = src
               /\ \A i \in Range(region.capacity) :
                   i # index => Slot(after.base, i) = Slot(region, i)
               /\ after.base = [region EXCEPT !.values = after.base.values]
               /\ DOMAIN after.base.values = DOMAIN region.values

\* Two live elements of two bytes each: an insert through the first
\* changes both of its bytes and none of the second.
C28_Witness ==
    /\ region.element_size = 2
    /\ region.len = 2
    /\ Slot(region, 0) = <<0, 0>>
    /\ Slot(region, 1) = <<1, 1>>
    /\ LET id == region.index_to_id[0]
           after == insert(region, id, region.generation[id], <<1, 0>>)
       IN /\ after.ret
          /\ Slot(after.base, 0) = <<1, 0>>
          /\ Slot(after.base, 1) = <<1, 1>>

(***************************************************************************)
(* C29: after remove(id, g) has returned true, (id, g) is not alive in any *)
(* later state in which id has been removed fewer than 2^16 times          *)
(* counting that remove, whatever allocate and clear calls come in         *)
(* between: generation[id] is g + 1 + the number of later removes of id,   *)
(* modulo 2^16, and (id, g) is alive again only when that has come all the *)
(* way round to g.                                                         *)
(***************************************************************************)
C29_StaleUntilWrap ==
    \A r \in retired :
        /\ r.since < U16 =>
               region.generation[r.id] = (r.generation + 1 + r.since) % U16
        /\ r.since + 1 < U16 =>
               /\ region.generation[r.id] # r.generation
               /\ ~is_alive(region, r.id, r.generation).ret
        /\ is_alive(region, r.id, r.generation).ret =>
               /\ r.since + 1 >= U16
               /\ region.generation[r.id] = r.generation

\* The id of a retired handle removed 65535 more times and allocated again:
\* its generation has come round and the old handle is alive.
C29_Witness ==
    \E r \in retired :
        /\ r.since + 1 = U16
        /\ region.generation[r.id] = r.generation
        /\ is_alive(region, r.id, r.generation).ret

(***************************************************************************)
(* allocate and remove one access at a time.  Each step below is one read  *)
(* or one write of a header field, a trailer field or an array cell, in    *)
(* the order of the code; a call keeps what it has read in its own record. *)
(* capacity, element_size and the trailer magic are written by init only,  *)
(* so the reads of them are folded into the step that uses them.           *)
(*                                                                         *)
(* A step returns the region, the caller's record and the handle it hands  *)
(* out or takes back, if any.  A debug assertion that fails, and the       *)
(* len - 1 of remove with len = 0, panic: the caller stops.  An access     *)
(* past the end of its array or past the last dense slot is outside what   *)
(* this model follows: the caller stops there and so does every other.     *)
(***************************************************************************)
MaxInterleavedCapacity == 2
MaxInterleavedCalls == 3

Go(base, local, pc) ==
    [base |-> base, local |-> [local EXCEPT !.pc = pc]]

Finish(base, ret) ==
    [base |-> base, local |-> [Idle EXCEPT !.ret = ret]]

Panic(base, local) ==
    [base |-> base, local |-> [local EXCEPT !.op = "halted", !.pc = "panic"]]

Wild(base, local) ==
    [base |-> base, local |-> [local EXCEPT !.op = "halted", !.pc = "wild"]]

\* A ptr::write of free_top that does not happen.
write_free_top_dropped(base, free_top) == base

\* ptr::write(free_top_p, free_top)
write_free_top(base, free_top) == [base EXCEPT !.free_top = free_top]

\* debug_validate_slotmap: the read of len, then the read of free_top and
\* the assertions, on len as it was read.
validate_step(base, local, then) ==
    CASE local.pc = "validate_len" ->
             Go(base, [local EXCEPT !.len = base.len], "validate_free_top")
      [] local.pc = "validate_free_top" ->
             IF debug_validate_slotmap([base EXCEPT !.len = local.len])
             THEN Go(base, [local EXCEPT !.len = 0], then)
             ELSE Panic(base, local)

allocate_step(base, local) ==
    CASE local.pc \in {"validate_len", "validate_free_top"} ->
             validate_step(base, local, "read_len")
      [] local.pc = "read_len" ->
             Go(base, [local EXCEPT !.len = base.len], "read_free_top")
      [] local.pc = "read_free_top" ->
             IF base.free_top = 0 THEN Finish(base, <<"None">>)
             ELSE Go(base, [local EXCEPT !.free_top = base.free_top],
                     "write_free_top")
      [] local.pc = "write_free_top" ->
             Go(write_free_top(base, local.free_top - 1), local, "read_id")
      [] local.pc = "read_id" ->
             IF local.free_top - 1 >= base.capacity THEN Wild(base, local)
             ELSE Go(base, [local EXCEPT !.id = base.free_stack[local.free_top - 1],
                                         !.index = local.len],
                     "write_len")
      [] local.pc = "write_len" ->
             Go([base EXCEPT !.len = (local.len + 1) % U16], local,
                "write_id_to_index")
      [] local.pc = "write_id_to_index" ->
             IF local.id >= base.capacity THEN Wild(base, local)
             ELSE Go([base EXCEPT !.id_to_index[local.id] = local.index], local,
                     "write_index_to_id")
      [] local.pc = "write_index_to_id" ->
             IF local.index >= base.capacity THEN Wild(base, local)
             ELSE Go([base EXCEPT !.index_to_id[local.index] = local.id], local,
                     "read_generation")
      [] local.pc = "read_generation" ->
             Finish(base, <<"Some", local.id, base.generation[local.id]>>)

remove_step(base, local) ==
    CASE local.pc \in {"validate_len", "validate_free_top"} ->
             validate_step(base, local, "read_generation")
      [] local.pc = "read_generation" ->
             IF local.id >= base.capacity THEN Finish(base, <<"false">>)
             ELSE IF base.generation[local.id] # local.generation
                  THEN Finish(base, <<"false">>)
                  ELSE Go(base, local, "read_index")
      [] local.pc = "read_index" ->
             IF base.id_to_index[local.id] = INVALID_U16
             THEN Finish(base, <<"false">>)
             ELSE Go(base, [local EXCEPT !.index = base.id_to_index[local.id]],
                     "read_len")
      [] local.pc = "read_len" ->
             IF base.len = 0 THEN Panic(base, local)
             ELSE Go(base, [local EXCEPT !.len = base.len, !.last = base.len - 1],
                     IF local.index # base.len - 1
                     THEN "swap_values" ELSE "clear_index_to_id")
      [] local.pc = "swap_values" ->
             IF local.index >= base.capacity \/ local.last >= base.capacity
             THEN Wild(base, local)
             ELSE Go([base EXCEPT !.values =
                         swap_nonoverlapping(@, local.index * base.element_size,
                                             local.last * base.element_size,
                                             base.element_size)],
                     local, "read_moved_id")
      [] local.pc = "read_moved_id" ->
             Go(base, [local EXCEPT !.moved_id = base.index_to_id[local.last]],
                "write_index_to_id")
      [] local.pc = "write_index_to_id" ->
             Go([base EXCEPT !.index_to_id[local.index] = local.moved_id], local,
                "write_id_to_index")
      [] local.pc = "write_id_to_index" ->
             IF local.moved_id >= base.capacity THEN Wild(base, local)
             ELSE Go([base EXCEPT !.id_to_index[local.moved_id] = local.index],
                     local, "clear_index_to_id")
      [] local.pc = "clear_index_to_id" ->
             IF local.last >= base.capacity THEN Wild(base, local)
             ELSE Go([base EXCEPT !.index_to_id[local.last] = INVALID_U16], local,
                     "clear_id_to_index")
      [] local.pc = "clear_id_to_index" ->
             Go([base EXCEPT !.id_to_index[local.id] = INVALID_U16], local,
                "write_len")
      [] local.pc = "write_len" ->
             Go([base EXCEPT !.len = local.last], local, "read_old_gen")
      [] local.pc = "read_old_gen" ->
             Go(base, [local EXCEPT !.old_gen = base.generation[local.id]],
                "write_generation")
      [] local.pc = "write_generation" ->
             Go([base EXCEPT !.generation[local.id] = (local.old_gen + 1) % U16],
                local, "read_free_top")
      [] local.pc = "read_free_top" ->
             Go(base, [local EXCEPT !.free_top = base.free_top], "write_free_stack")
      [] local.pc = "write_free_stack" ->
             IF local.free_top >= base.capacity THEN Wild(base, local)
             ELSE Go([base EXCEPT !.free_stack[local.free_top] = local.id], local,
                     "write_free_top")
      [] local.pc = "write_free_top" ->
             [base |-> write_free_top(base, (local.free_top + 1) % U16),
              local |-> [Idle EXCEPT !.ret = <<"true", local.id>>]]

\* Whether another caller is inside a call.
OthersBusy(t) ==
    \E o \in Threads \ {t} : calls.thread[o].op \in {"allocate", "remove"}

Stopped == \E t \in Threads : calls.thread[t].pc = "wild"

\* handed after caller's step ended in local.
Handed(local) ==
    IF local.op = "idle" /\ local.ret[1] = "Some"
    THEN [calls.handed EXCEPT ![local.ret[2]] = IF @ < 2 THEN @ + 1 ELSE @]
    ELSE IF local.op = "idle" /\ local.ret[1] = "true"
         THEN [calls.handed EXCEPT ![local.ret[2]] = 0]
         ELSE calls.handed

Begin(t, op, id, generation) ==
    /\ ~Stopped
    /\ calls.thread[t].op = "idle"
    /\ calls.started < MaxInterleavedCalls
    /\ calls' = [calls EXCEPT
                    !.thread[t] = [Idle EXCEPT !.op = op, !.pc = "validate_len",
                                               !.id = id, !.generation = generation],
                    !.overlapped = @ \/ OthersBusy(t),
                    !.started = @ + 1]
    /\ UNCHANGED <<region, retired>>

BeginAllocate(t) == Begin(t, "allocate", 0, 0)

BeginRemove(t, id, generation) == Begin(t, "remove", id, generation)

Step(t, op, after) ==
    /\ ~Stopped
    /\ calls.thread[t].op = op
    /\ region' = after.base
    /\ calls' = [calls EXCEPT
                    !.thread[t] = after.local,
                    !.overlapped = @ \/ OthersBusy(t),
                    !.handed = Handed(after.local)]
    /\ UNCHANGED retired

StepAllocate(t) == Step(t, "allocate", allocate_step(region, calls.thread[t]))

StepRemove(t) == Step(t, "remove", remove_step(region, calls.thread[t]))

(***************************************************************************)
(* SpecInterleaved: two callers on one region of one-byte elements, each   *)
(* calling allocate, or remove with a handle of the generation stored now, *)
(* MaxInterleavedCalls calls in all; a caller may begin and take its steps *)
(* whenever it likes, between the steps of the other.                      *)
(***************************************************************************)
InitInterleaved ==
    /\ \E capacity \in 1 .. MaxInterleavedCapacity :
        /\ region = init(capacity, 1, Zeroes(capacity))
        /\ calls = [NoCalls EXCEPT !.handed = [id \in Range(capacity) |-> 0]]
    /\ retired = {}

NextInterleaved ==
    \/ \E t \in Threads : BeginAllocate(t)
    \/ \E t \in Threads, id \in Range(region.capacity) :
           BeginRemove(t, id, region.generation[id])
    \/ \E t \in Threads : StepAllocate(t)
    \/ \E t \in Threads : StepRemove(t)

SpecInterleaved == InitInterleaved /\ [][NextInterleaved]_vars

\* No caller is inside a call and none has stopped.
Quiescent == \A t \in Threads : calls.thread[t].op = "idle"

OnFreeStack(base) ==
    {base.free_stack[k] : k \in {j \in Range(base.capacity) : j < base.free_top}}

LiveIds(base) == {id \in Range(base.capacity) : base.id_to_index[id] # INVALID_U16}

(***************************************************************************)
(* C30: as long as the calls of allocate and remove are executed one at a  *)
(* time, no call panics or leaves its arrays, and between two calls        *)
(* len + free_top = capacity, no id is both live and on the free stack and *)
(* no id has been handed out twice without a remove in between.  The       *)
(* witness is a state that interleaved calls reach and serial calls do     *)
(* not.                                                                    *)
(***************************************************************************)
C30_SerialCallsAreConsistent ==
    ~calls.overlapped =>
        /\ \A t \in Threads : calls.thread[t].op # "halted"
        /\ Quiescent =>
               /\ region.len + region.free_top = region.capacity
               /\ LiveIds(region) \cap OnFreeStack(region) = {}
               /\ \A id \in Range(region.capacity) : calls.handed[id] <= 1
               /\ \A id \in Range(region.capacity) :
                      calls.handed[id] = 1 <=> id \in LiveIds(region)

\* Three calls, two of them at once, have left a region with
\* len + free_top # capacity in which an id is live and on the free stack
\* and an id has been handed out twice.
C30_Witness ==
    /\ calls.overlapped
    /\ Quiescent
    /\ region.len + region.free_top # region.capacity
    /\ LiveIds(region) \cap OnFreeStack(region) # {}
    /\ \E id \in Range(region.capacity) : calls.handed[id] = 2
====
